---- MODULE Spec2Model ----
(***************************************************************************)
(* Recording control of hopus-ai/meet: the /start and /stop route          *)
(* handlers, the EgressClient they call, the remote egress service they    *)
(* talk to, and the SettingsMenu recording toggle of the client.           *)
(*                                                                         *)
(* JavaScript values are tagged records (typeof in field t), strings that  *)
(* the code builds by concatenation are sequences of string pieces.        *)
(***************************************************************************)
EXTENDS Integers, Sequences, FiniteSets, TLC

VARIABLES
    env,            \* process.env as the route handlers read it
    reqs,           \* one record per inbound HTTP request (a handler invocation)
    jobs,           \* the remote service's egress jobs, in creation order
    statusIn,       \* a status value handed to isEgressActive
    activeOut,      \* what isEgressActive returned for statusIn
    stopFilterOut,  \* what the stop route's filter predicate returned for statusIn
    lookupIn,       \* the outcome of a GetParticipant fetch
    participantOut, \* what getParticipant returned for lookupIn
    permOut,        \* what checkRecordingPermission returned for lookupIn
    livekitIsRecording,    \* useIsRecording()
    localRecordingState,   \* useState<boolean | null>(null)
    processingRecRequest,  \* useState(false)
    ui,                    \* the toggleRoomRecording invocation in progress
    tokenIn,        \* the arguments of a generateLiveKitToken call and its Date.now()
    token,          \* the token string handed to verifyLiveKitToken
    verifyOut       \* what verifyLiveKitToken returned for token

vars == <<env, reqs, jobs, statusIn, activeOut, stopFilterOut,
          lookupIn, participantOut, permOut,
          livekitIsRecording, localRecordingState, processingRecRequest, ui,
          tokenIn, token, verifyOut>>

routeVars  == <<env, reqs, jobs>>
statusVars == <<statusIn, activeOut, stopFilterOut>>
permVars   == <<lookupIn, participantOut, permOut>>
uiVars     == <<livekitIsRecording, localRecordingState, processingRecRequest, ui>>
jwtVars    == <<tokenIn, token, verifyOut>>

(***************************************************************************)
(* JavaScript values                                                       *)
(***************************************************************************)
Str(x)  == [t |-> "string",    s |-> x,  n |-> 0, b |-> FALSE, a |-> <<>>]
Num(x)  == [t |-> "number",    s |-> "", n |-> x, b |-> FALSE, a |-> <<>>]
Bool(x) == [t |-> "boolean",   s |-> "", n |-> 0, b |-> x,     a |-> <<>>]
Undef   == [t |-> "undefined", s |-> "", n |-> 0, b |-> FALSE, a |-> <<>>]
Null    == [t |-> "null",      s |-> "", n |-> 0, b |-> FALSE, a |-> <<>>]
\* A plain object; what it holds is not looked at, only that it is one.
Obj     == [t |-> "object",    s |-> "", n |-> 0, b |-> FALSE, a |-> <<>>]
\* An array with its elements.
Arr(elems) == [t |-> "array",  s |-> "", n |-> 0, b |-> FALSE, a |-> elems]

\* A thrown Error with its message, and the two ways a block of code ends.
Returned(v)  == [threw |-> FALSE, value |-> v,    message |-> <<>>]
Thrown(msg)  == [threw |-> TRUE,  value |-> Undef, message |-> msg]

\* JavaScript's ToBoolean: what `!x` and `x || y` test.
Truthy(x) ==
    CASE x.t = "string"  -> x.s # ""
      [] x.t = "number"  -> x.n # 0
      [] x.t = "boolean" -> x.b
      [] x.t = "object"  -> TRUE
      [] x.t = "array"   -> TRUE
      [] OTHER           -> FALSE

(***************************************************************************)
(* EgressStatus and isEgressActive                                         *)
(***************************************************************************)
EGRESS_STARTING      == 0
EGRESS_ACTIVE        == 1
EGRESS_ENDING        == 2
EGRESS_COMPLETE      == 3
EGRESS_FAILED        == 4
EGRESS_ABORTED       == 5
EGRESS_LIMIT_REACHED == 6

\* The name the remote service's JSON uses for a status number.
StatusName(n) ==
    CASE n = EGRESS_STARTING      -> "EGRESS_STARTING"
      [] n = EGRESS_ACTIVE        -> "EGRESS_ACTIVE"
      [] n = EGRESS_ENDING        -> "EGRESS_ENDING"
      [] n = EGRESS_COMPLETE      -> "EGRESS_COMPLETE"
      [] n = EGRESS_FAILED        -> "EGRESS_FAILED"
      [] n = EGRESS_ABORTED       -> "EGRESS_ABORTED"
      [] n = EGRESS_LIMIT_REACHED -> "EGRESS_LIMIT_REACHED"

isEgressActive_StringOnly(status) ==
    status.t = "string" /\ (status.s = "EGRESS_STARTING" \/ status.s = "EGRESS_ACTIVE")

isEgressActive_WithEnding(status) ==
    IF status.t = "string"
    THEN status.s = "EGRESS_STARTING" \/ status.s = "EGRESS_ACTIVE"
    ELSE status.t = "number" /\ status.n <= EGRESS_ENDING /\ status.n >= EGRESS_STARTING

isEgressActive(status) ==
    IF status.t = "string"
    THEN status.s = "EGRESS_STARTING" \/ status.s = "EGRESS_ACTIVE"
    ELSE status.t = "number"
         /\ (status.n = EGRESS_STARTING \/ status.n = EGRESS_ACTIVE)

\* A filter that also keeps the jobs that are ending.
stopRouteFilter_WithEnding(status) ==
    status.t = "number" /\ status.n >= EGRESS_STARTING /\ status.n <= EGRESS_ENDING

\* The predicate the stop route filters the listed jobs with:
\* info.status === EgressStatus.EGRESS_STARTING || info.status === EgressStatus.EGRESS_ACTIVE
stopRouteFilter(status) ==
    status.t = "number" /\ (status.n = EGRESS_STARTING \/ status.n = EGRESS_ACTIVE)

(***************************************************************************)
(* JSON.parse on participant metadata, and the permission check            *)
(***************************************************************************)
\* The metadata strings the model hands to JSON.parse.
MetadataStrings ==
    { "{\"canRecord\":true}", "{\"canRecord\":false}", "{\"canRecord\":\"true\"}",
      "{\"canRecord\":1}", "{\"canRecord\":null}", "{}", "{\"role\":\"host\"}",
      "{\"canRecord\":true,\"role\":\"host\"}", " {\"canRecord\": true} ",
      "{\"canrecord\":true}", "[]", "null", "true", "5", "\"canRecord\"",
      "canRecord=true", "{canRecord:true}", "{\"canRecord\":true" }

\* JSON.parse(s), then the read of .canRecord on what it returned: the value of
\* the property, or the SyntaxError / TypeError raised on the way.
JsonParseCanRecord(s) ==
    CASE s \in { "{\"canRecord\":true}", "{\"canRecord\":true,\"role\":\"host\"}",
                 " {\"canRecord\": true} " }  -> Returned(Bool(TRUE))
      [] s = "{\"canRecord\":false}"        -> Returned(Bool(FALSE))
      [] s = "{\"canRecord\":\"true\"}"     -> Returned(Str("true"))
      [] s = "{\"canRecord\":1}"            -> Returned(Num(1))
      [] s = "{\"canRecord\":null}"         -> Returned(Null)
      [] s \in { "{}", "{\"role\":\"host\"}", "{\"canrecord\":true}", "[]" }
                                            -> Returned(Undef)
      [] s \in { "true", "5", "0", "1", "-1", "\"canRecord\"" } -> Returned(Undef)
      [] s = "null" -> Thrown(<<"Cannot read properties of null (reading 'canRecord')">>)
      [] OTHER      -> Thrown(<<"Unexpected token in JSON">>)

\* String(x), the conversion JSON.parse applies to an argument that is no
\* string; an array gives its elements' strings joined by ',', a null or
\* undefined element giving the empty string.
RECURSIVE JsString(_)
JsString(x) ==
    LET elem(e) == IF e.t \in {"null", "undefined"} THEN "" ELSE JsString(e)
        join[i \in 0..Len(x.a)] ==
            IF i = 0 THEN ""
            ELSE IF i = 1 THEN elem(x.a[1])
            ELSE join[i - 1] \o "," \o elem(x.a[i])
    IN CASE x.t = "string"  -> x.s
         [] x.t = "number"  -> ToString(x.n)
         [] x.t = "boolean" -> IF x.b THEN "true" ELSE "false"
         [] x.t = "object"  -> "[object Object]"
         [] x.t = "array"   -> join[Len(x.a)]
         [] x.t = "null"    -> "null"
         [] OTHER           -> "undefined"

\* What fetch() gave for a remote call: a network failure, or a response with
\* its status, its body text, and what the body is as JSON.
NetworkError == [kind |-> "network_error", status |-> 0, text |-> "fetch failed",
                 json |-> "none", metadata |-> Undef]
Response(status, text, json, metadata) ==
    [kind |-> "response", status |-> status, text |-> text, json |-> json,
     metadata |-> metadata]
ResponseOk(o) == o.kind = "response" /\ o.status >= 200 /\ o.status <= 299

NoParticipant == [isNull |-> TRUE, metadata |-> Undef]

\* getParticipant with the try block's exceptions escaping to the caller.
getParticipant_NoCatch(fetched) ==
    IF fetched.kind = "network_error" THEN Thrown(<<fetched.text>>)
    ELSE IF ~ResponseOk(fetched) THEN Returned(NoParticipant)
    ELSE IF fetched.json = "invalid" THEN Thrown(<<"Unexpected token in JSON">>)
    ELSE IF fetched.json = "null"
         THEN Thrown(<<"Cannot read properties of null (reading 'sid')">>)
    ELSE Returned([isNull |-> FALSE, metadata |-> fetched.metadata])

\* getParticipant: the participant record of the response, null on a non-OK
\* response and on anything the try block throws.
getParticipant(fetched) ==
    IF fetched.kind = "network_error" THEN Returned(NoParticipant)
    ELSE IF ~ResponseOk(fetched) THEN Returned(NoParticipant)
    ELSE IF fetched.json \in {"invalid", "null"} THEN Returned(NoParticipant)
    ELSE Returned([isNull |-> FALSE, metadata |-> fetched.metadata])

\* The body of checkRecordingPermission after the lookup, accepting any truthy
\* canRecord.
hasPermission_Truthy(participant) ==
    IF participant.isNull \/ ~Truthy(participant.metadata) THEN Returned(FALSE)
    ELSE LET parsed == JsonParseCanRecord(JsString(participant.metadata)) IN
         IF parsed.threw THEN Returned(FALSE)
         ELSE Returned(Truthy(parsed.value))

\* The same body without the try around JSON.parse.
hasPermission_NoCatch(participant) ==
    IF participant.isNull \/ ~Truthy(participant.metadata) THEN Returned(FALSE)
    ELSE LET parsed == JsonParseCanRecord(JsString(participant.metadata)) IN
         IF parsed.threw THEN parsed
         ELSE Returned(parsed.value = Bool(TRUE))

\* The body of checkRecordingPermission after the lookup: false for no
\* participant or falsy metadata, false when JSON.parse or the property read
\* throws, and otherwise whether canRecord === true.
hasPermission(participant) ==
    IF participant.isNull \/ ~Truthy(participant.metadata) THEN Returned(FALSE)
    ELSE LET parsed == JsonParseCanRecord(JsString(participant.metadata)) IN
         IF parsed.threw THEN Returned(FALSE)
         ELSE Returned(parsed.value = Bool(TRUE))

\* A permission check that grants when the lookup fails (fail-open).
checkRecordingPermission_FailOpen(fetched) ==
    LET got == getParticipant(fetched) IN
    IF got.threw THEN got
    ELSE IF got.value.isNull THEN Returned(TRUE)
    ELSE hasPermission(got.value)

\* checkRecordingPermission: what it returns (or throws) for a fetch outcome.
checkRecordingPermission(fetched) ==
    LET got == getParticipant(fetched) IN
    IF got.threw THEN got ELSE hasPermission(got.value)

(***************************************************************************)
(* Bounds of the model                                                     *)
(***************************************************************************)
MaxReq  == 2    \* inbound requests handled (concurrently)
MaxJobs == 2    \* egress jobs the remote service accepts

Requests == 1..MaxReq

(***************************************************************************)
(* Strings built by the code                                               *)
(***************************************************************************)
DigitChar(d) == CASE d = 0 -> "0" [] d = 1 -> "1" [] d = 2 -> "2" [] d = 3 -> "3"
                  [] d = 4 -> "4" [] d = 5 -> "5" [] d = 6 -> "6" [] d = 7 -> "7"
                  [] d = 8 -> "8" [] d = 9 -> "9"

\* The decimal digits of a natural number, as a template literal prints it.
RECURSIVE Decimal(_)
Decimal(n) == IF n < 10 THEN <<DigitChar(n)>>
              ELSE Decimal(n \div 10) \o <<DigitChar(n % 10)>>

\* new Date().toISOString(), in pieces: the instants the clock may show.
IsoInstants ==
    { <<"2025", "-", "01", "-", "15", "T", "09", ":", "30", ":", "00", ".", "000", "Z">>,
      <<"2025", "-", "01", "-", "15", "T", "09", ":", "30", ":", "00", ".", "001", "Z">> }

\* timestamp.replace(/[:.]/g, '-')
ReplaceColonDot(iso) ==
    [i \in 1..Len(iso) |-> IF iso[i] \in {":", "."} THEN "-" ELSE iso[i]]

\* The path built from the ISO string as it is, ':' and '.' left in.
Filepath_RawTimestamp(roomName, iso) ==
    <<"recordings/", roomName, "/">> \o iso \o <<".mp4">>

\* `recordings/${roomName}/${timestamp}.mp4`
Filepath(roomName, iso) ==
    <<"recordings/", roomName, "/">> \o ReplaceColonDot(iso) \o <<".mp4">>

(***************************************************************************)
(* process.env                                                             *)
(***************************************************************************)
UrlValues == { Undef, Str("wss://meet.livekit.example"), Str("meet.livekit.example") }
SetOrNot(v) == { Undef, Str(v) }

\* Every combination of set / unset variables (the URL also set but invalid).
EnvCombos ==
    [ LIVEKIT_API_KEY : SetOrNot("APIkey"), LIVEKIT_API_SECRET : SetOrNot("secret"),
      LIVEKIT_URL : UrlValues,
      S3_KEY_ID : SetOrNot("s3id"), S3_KEY_SECRET : SetOrNot("s3secret"),
      S3_BUCKET : SetOrNot("bucket"), S3_ENDPOINT : SetOrNot("https://s3.example"),
      S3_REGION : SetOrNot("eu-west-1") ]

FullEnv ==
    [ LIVEKIT_API_KEY |-> Str("APIkey"), LIVEKIT_API_SECRET |-> Str("secret"),
      LIVEKIT_URL |-> Str("wss://meet.livekit.example"),
      S3_KEY_ID |-> Str("s3id"), S3_KEY_SECRET |-> Str("s3secret"),
      S3_BUCKET |-> Str("bucket"), S3_ENDPOINT |-> Str("https://s3.example"),
      S3_REGION |-> Str("eu-west-1") ]

\* new URL(livekitUrl) accepts the string (it throws a TypeError otherwise).
UrlParses(u) == u.t = "string" /\ u.s \in { "wss://meet.livekit.example" }

(***************************************************************************)
(* HTTP responses of the route handlers                                    *)
(***************************************************************************)
NoResp == [status |-> 0, contentType |-> "", message |-> <<>>, filepath |-> <<>>,
           stopped |-> 0, files |-> <<>>, escaped |-> FALSE]

\* new NextResponse(text, { status })
TextResponse(status, text) ==
    [status |-> status, contentType |-> "text/plain", message |-> text,
     filepath |-> <<>>, stopped |-> 0, files |-> <<>>, escaped |-> FALSE]

\* new NextResponse(JSON.stringify({...}), { status: 200, headers: json })
JsonResponse(message, filepath, stopped, files) ==
    [status |-> 200, contentType |-> "application/json", message |-> <<message>>,
     filepath |-> filepath, stopped |-> stopped, files |-> files, escaped |-> FALSE]

\* A handler without its try/catch: the error leaves the handler.
TopLevelCatch_Rethrow(message) ==
    [status |-> 0, contentType |-> "", message |-> message, filepath |-> <<>>,
     stopped |-> 0, files |-> <<>>, escaped |-> TRUE]

\* A catch that answers with a fixed text instead of the error's message.
TopLevelCatch_Generic(message) == TextResponse(500, <<"Unknown error">>)

\* catch (error): every value the code throws is an Error, so the body is its
\* message.
TopLevelCatch(message) == TextResponse(500, message)

(***************************************************************************)
(* The remote service, as the EgressClient sees it                         *)
(***************************************************************************)
\* jobs[i] is the job with id EgressId(i): its room and its status (a number of
\* EgressStatus).
EgressId(i) == "EG_" \o ToString(i)
EgressIds == { EgressId(i) : i \in 1..MaxJobs }
JobIndex(id) == CHOOSE i \in 1..Len(jobs) : EgressId(i) = id

\* The participants of the room service and their metadata.
KnownIdentities == { "alice", "bob", "dave" }
Directory(identity) ==
    CASE identity = "alice" -> Str("{\"canRecord\":true}")
      [] identity = "bob"   -> Str("{\"canRecord\":false}")
      [] identity = "dave"  -> Str("")

\* What the GetParticipant fetch can give for an identity.
LookupOutcomes(identity) ==
    { NetworkError, Response(503, "unavailable", "none", Undef) }
    \cup (IF identity \in KnownIdentities
          THEN { Response(200, "", "object", Directory(identity)) }
          ELSE { Response(404, "participant does not exist", "none", Undef) })

\* What a fetch of an Egress method can give when the call does not succeed.
EgressRejections ==
    { Response(401, "invalid token", "none", Undef),
      Response(503, "egress not available", "none", Undef) }
EgressSuccess == Response(200, "", "object", Undef)

\* The status lifecycle of a job on the remote service.
NextStatuses(st) ==
    CASE st = EGRESS_STARTING -> { EGRESS_ACTIVE, EGRESS_ENDING, EGRESS_FAILED,
                                   EGRESS_ABORTED }
      [] st = EGRESS_ACTIVE   -> { EGRESS_ENDING, EGRESS_LIMIT_REACHED }
      [] st = EGRESS_ENDING   -> { EGRESS_COMPLETE }
      [] OTHER                -> {}

\* A job as the remote service's JSON shows it: snake_case or camelCase field
\* names, the status as its name or as its number.
RenderJob(i, naming, form) ==
    LET id   == Str(EgressId(i))
        room == Str(jobs[i].roomName)
    IN [ egress_id |-> IF naming = "snake" THEN id ELSE Undef,
         egressId  |-> IF naming = "camel" THEN id ELSE Undef,
         room_name |-> IF naming = "snake" THEN room ELSE Undef,
         roomName  |-> IF naming = "camel" THEN room ELSE Undef,
         status    |-> IF form = "string" THEN Str(StatusName(jobs[i].status))
                       ELSE Num(jobs[i].status) ]

\* The indices of the jobs a ListEgress body selects, in creation order: those
\* of room_name, or all of them when the body has no room_name.
ListedJobs(roomName) ==
    LET keep(i) == ~Truthy(roomName) \/ jobs[i].roomName = roomName.s
        F[i \in 0..Len(jobs)] ==
            IF i = 0 THEN <<>> ELSE IF keep(i) THEN Append(F[i-1], i) ELSE F[i-1]
    IN F[Len(jobs)]

(***************************************************************************)
(* EgressClient                                                            *)
(***************************************************************************)
\* request without the response.ok test.
request_IgnoreStatus(fetched) ==
    IF fetched.kind = "network_error" THEN Thrown(<<fetched.text>>)
    ELSE Returned(TRUE)

\* request with an error that leaves the remote status and text out.
request_BareMessage(fetched) ==
    IF fetched.kind = "network_error" THEN Thrown(<<fetched.text>>)
    ELSE IF ~ResponseOk(fetched) THEN Thrown(<<"Egress API error">>)
    ELSE Returned(TRUE)

\* request: returns when the response is OK, throws the fetch's own error on a
\* network failure and `Egress API error: ${status} - ${errorText}` otherwise.
request(fetched) ==
    IF fetched.kind = "network_error" THEN Thrown(<<fetched.text>>)
    ELSE IF ~ResponseOk(fetched)
         THEN Thrown(<<"Egress API error: ">> \o Decimal(fetched.status)
                     \o <<" - ", fetched.text>>)
    ELSE Returned(TRUE)

\* a || b
OrElse(a, b) == IF Truthy(a) THEN a ELSE b

mapEgressInfo(data) ==
    [ egressId |-> OrElse(data.egress_id, data.egressId),
      roomName |-> OrElse(data.room_name, data.roomName),
      status   |-> data.status ]

\* listEgress on an OK response: (result.items || []).map(mapEgressInfo)
listEgress(roomName, naming, form) ==
    LET idx == ListedJobs(roomName)
    IN [k \in 1..Len(idx) |-> mapEgressInfo(RenderJob(idx[k], naming, form))]

\* A remote call as the client issued it.
Call(method, room, egressId, filepath, region) ==
    [method |-> method, room |-> room, egressId |-> egressId,
     filepath |-> filepath, region |-> region]

(***************************************************************************)
(* The route handlers GET /start and GET /stop                             *)
(***************************************************************************)
\* What the query parameters of a request can be: absent (null), empty, set.
RoomParams     == { Null, Str(""), Str("roomA") }
IdentityParams == { Null, Str(""), Str("alice"), Str("bob"), Str("carol"), Str("dave") }
\* The parameters of the requests that the model runs concurrently.
RoomsServed      == { Str("roomA") }
IdentitiesServed == { Str("alice"), Str("bob") }
ExternalRooms  == { "roomA", "roomB" }

FreeReq ==
    [ pc |-> "free", kind |-> "none", roomName |-> Null, identity |-> Null,
      calls |-> <<>>, list |-> <<>>, filepath |-> <<>>, unsent |-> {},
      pending |-> {},
      stopped |-> {}, withFile |-> {}, created |-> "", settled |-> <<>>,
      resp |-> NoResp ]

\* How a remote call of a request settled: its method, the job it named and
\* what the fetch gave.
Settled(method, egressId, fetched) ==
    [method |-> method, egressId |-> egressId, kind |-> fetched.kind,
     status |-> fetched.status, text |-> fetched.text]

Finish(q, resp) == [q EXCEPT !.pc = "done", !.resp = resp]

\* Both handlers up to the permission check: the response they return, or NoResp
\* when the handler goes on to checkRecordingPermission.
Entry_PermissionFirst(kind, roomName, identity, e) ==
    IF roomName.t = "null"
    THEN TextResponse(403, <<"Missing roomName parameter">>)
    ELSE IF ~Truthy(identity)
    THEN TextResponse(403, <<"Missing identity parameter">>)
    ELSE NoResp

Entry(kind, roomName, identity, e) ==
    IF roomName.t = "null"
    THEN TextResponse(403, <<"Missing roomName parameter">>)
    ELSE IF ~Truthy(identity)
    THEN TextResponse(403, <<"Missing identity parameter">>)
    ELSE IF ~Truthy(e.LIVEKIT_API_KEY) \/ ~Truthy(e.LIVEKIT_API_SECRET)
            \/ ~Truthy(e.LIVEKIT_URL)
    THEN TextResponse(500, <<"LiveKit configuration missing">>)
    ELSE IF kind = "start"
            /\ (~Truthy(e.S3_KEY_ID) \/ ~Truthy(e.S3_KEY_SECRET)
                \/ ~Truthy(e.S3_BUCKET) \/ ~Truthy(e.S3_ENDPOINT))
    THEN TextResponse(500, <<"S3 storage configuration missing">>)
    ELSE IF ~UrlParses(e.LIVEKIT_URL)
    THEN TopLevelCatch(<<"Invalid URL">>)
    ELSE NoResp

\* A request arrives and its handler runs up to the first await: the
\* GetParticipant fetch of checkRecordingPermission.
Arrive(r, rooms, identities) ==
    /\ reqs[r].pc = "free"
    /\ \A k \in 1..(r-1) : reqs[k].pc # "free"
    /\ \E kind \in {"start", "stop"}, roomName \in rooms, identity \in identities :
          LET first == Entry(kind, roomName, identity, env)
              q == [FreeReq EXCEPT !.kind = kind, !.roomName = roomName,
                                   !.identity = identity]
          IN reqs' = [reqs EXCEPT ![r] =
                 IF first # NoResp THEN Finish(q, first)
                 ELSE [q EXCEPT !.pc = "perm",
                                !.calls = <<Call("GetParticipant", roomName.s, "", <<>>, "")>>]]
    /\ UNCHANGED <<env, jobs, statusVars, permVars, uiVars, jwtVars>>

\* The GetParticipant fetch settles; the handler returns 403 or goes on to
\* listEgress({ roomName }).
PermStep(r) ==
    /\ reqs[r].pc = "perm"
    /\ \E fetched \in LookupOutcomes(reqs[r].identity.s) :
          LET q == [reqs[r] EXCEPT !.settled = Append(@, Settled("GetParticipant", "", fetched))]
              perm == checkRecordingPermission(fetched)
          IN reqs' = [reqs EXCEPT ![r] =
                 IF perm.threw THEN Finish(q, TopLevelCatch(perm.message))
                 ELSE IF ~perm.value
                 THEN Finish(q, TextResponse(403, <<"Recording permission denied">>))
                 ELSE [q EXCEPT !.pc = "list",
                                !.calls = Append(@, Call("ListEgress",
                                    IF Truthy(q.roomName) THEN q.roomName.s ELSE "",
                                    "", <<>>, ""))]]
    /\ UNCHANGED <<env, jobs, statusVars, permVars, uiVars, jwtVars>>

EgressOutcomes == EgressRejections \cup { NetworkError, EgressSuccess }

\* GET /start: the ListEgress fetch settles; the handler returns 409 or builds
\* the file path and issues StartRoomCompositeEgress.
StartAfterList(r) ==
    /\ reqs[r].pc = "list"
    /\ reqs[r].kind = "start"
    /\ \E fetched \in EgressOutcomes, naming \in {"snake", "camel"},
          form \in {"string", "number"}, iso \in IsoInstants :
          LET q == [reqs[r] EXCEPT !.settled = Append(@, Settled("ListEgress", "", fetched))]
              res == request(fetched)
              existingEgresses == listEgress(q.roomName, naming, form)
              activeEgress == \E k \in 1..Len(existingEgresses) :
                                 isEgressActive(existingEgresses[k].status)
              filepath == Filepath(q.roomName.s, iso)
          IN reqs' = [reqs EXCEPT ![r] =
                 IF res.threw THEN Finish(q, TopLevelCatch(res.message))
                 ELSE IF activeEgress
                 THEN Finish([q EXCEPT !.list = existingEgresses],
                             TextResponse(409, <<"Meeting is already being recorded">>))
                 ELSE [q EXCEPT !.pc = "start", !.list = existingEgresses,
                                !.filepath = filepath,
                                !.calls = Append(@, Call("StartRoomCompositeEgress",
                                    q.roomName.s, "", filepath,
                                    IF Truthy(env.S3_REGION) THEN env.S3_REGION.s
                                    ELSE "auto"))]]
    /\ UNCHANGED <<env, jobs, statusVars, permVars, uiVars, jwtVars>>

\* GET /start: the remote service handles StartRoomCompositeEgress (creating a
\* job unless it rejects the call or the call is lost) and the fetch settles.
StartCallStep(r) ==
    /\ reqs[r].pc = "start"
    /\ \E fetched \in EgressOutcomes, applied \in BOOLEAN :
          /\ fetched = EgressSuccess => applied
          /\ fetched \in EgressRejections => ~applied
          /\ applied => Len(jobs) < MaxJobs
          /\ jobs' = IF applied
                     THEN Append(jobs, [roomName |-> reqs[r].roomName.s,
                                        status |-> EGRESS_STARTING])
                     ELSE jobs
          /\ LET q == [reqs[r] EXCEPT
                          !.created = IF applied THEN EgressId(Len(jobs) + 1) ELSE "",
                          !.settled = Append(@, Settled("StartRoomCompositeEgress", "", fetched))]
                 res == request(fetched)
             IN reqs' = [reqs EXCEPT ![r] =
                    IF res.threw THEN Finish(q, TopLevelCatch(res.message))
                    ELSE Finish(q, JsonResponse("Recording started", q.filepath, 0, <<>>))]
    /\ UNCHANGED <<env, statusVars, permVars, uiVars, jwtVars>>

\* The listed jobs the stop handler keeps, in list order.
activeEgresses(egresses) ==
    SelectSeq(egresses, LAMBDA info : stopRouteFilter(info.status))

\* GET /stop: the ListEgress fetch settles; the handler returns 404 or calls
\* stopEgress for every kept job (Promise.all over the map). Each of these
\* calls first awaits its access token, so none of the fetches is issued yet.
StopAfterList(r) ==
    /\ reqs[r].pc = "list"
    /\ reqs[r].kind = "stop"
    /\ \E fetched \in EgressOutcomes, naming \in {"snake", "camel"},
          form \in {"string", "number"} :
          LET q == [reqs[r] EXCEPT !.settled = Append(@, Settled("ListEgress", "", fetched))]
              res == request(fetched)
              egresses == listEgress(q.roomName, naming, form)
              act == activeEgresses(egresses)
          IN reqs' = [reqs EXCEPT ![r] =
                 IF res.threw THEN Finish(q, TopLevelCatch(res.message))
                 ELSE IF Len(act) = 0
                 THEN Finish([q EXCEPT !.list = egresses],
                             TextResponse(404, <<"No active recording found">>))
                 ELSE [q EXCEPT !.pc = "stops", !.list = egresses,
                                !.unsent = { act[k].egressId.s : k \in 1..Len(act) }]]
    /\ UNCHANGED <<env, jobs, statusVars, permVars, uiVars, jwtVars>>

\* GET /stop: the access token of one stopEgress call is signed and its
\* StopEgress fetch is issued; the signings finish in any order, also after
\* the handler has answered.
StopIssueStep(r, id) ==
    /\ reqs[r].pc = "stops"
    /\ id \in reqs[r].unsent
    /\ reqs' = [reqs EXCEPT ![r] =
           [@ EXCEPT !.unsent = @ \ {id},
                     !.pending = @ \cup {id},
                     !.calls = Append(@, Call("StopEgress", "", id, <<>>, ""))]]
    /\ UNCHANGED <<env, jobs, statusVars, permVars, uiVars, jwtVars>>

\* results.map((r) => r.fileResults).flat().filter(Boolean), by the ids of the
\* jobs whose StopEgress result carried a file, in the order of the list.
Files(q, withFile) ==
    LET act == activeEgresses(q.list)
        ids == [k \in 1..Len(act) |-> act[k].egressId.s]
    IN SelectSeq(ids, LAMBDA id : id \in withFile)

\* GET /stop: the remote service handles one of the StopEgress calls in flight
\* and its fetch settles. The first rejection settles Promise.all and the
\* handler answers 500, while the other calls stay in flight; when every call
\* has been fulfilled the handler answers 200.
StopCallStep(r, id) ==
    /\ reqs[r].pc = "stops"
    /\ id \in reqs[r].pending
    /\ \E fetched \in EgressOutcomes, applied \in BOOLEAN :
          LET q == [reqs[r] EXCEPT !.settled = Append(@, Settled("StopEgress", id, fetched))]
              j == JobIndex(id)
              res == request(fetched)
              answered == q.resp.status # 0
              pending == q.pending \ {id}
              stopped == IF res.threw THEN q.stopped ELSE q.stopped \cup {id}
              withFile == IF ~res.threw /\ jobs[j].status = EGRESS_ACTIVE
                          THEN q.withFile \cup {id} ELSE q.withFile
          IN /\ fetched = EgressSuccess => applied
             /\ fetched \in EgressRejections => ~applied
             /\ applied => jobs[j].status \in {EGRESS_STARTING, EGRESS_ACTIVE}
             /\ jobs' = IF applied THEN [jobs EXCEPT ![j].status = EGRESS_ENDING]
                        ELSE jobs
             /\ reqs' = [reqs EXCEPT ![r] =
                    [q EXCEPT !.pc = IF pending = {} /\ q.unsent = {} THEN "done"
                                     ELSE "stops",
                              !.pending = pending,
                              !.stopped = stopped,
                              !.withFile = withFile,
                              !.resp = IF answered THEN q.resp
                                       ELSE IF res.threw THEN TopLevelCatch(res.message)
                                       ELSE IF pending = {} /\ q.unsent = {}
                                       THEN JsonResponse("Recording stopped", <<>>,
                                                Cardinality(stopped), Files(q, withFile))
                                       ELSE NoResp]]
    /\ UNCHANGED <<env, statusVars, permVars, uiVars, jwtVars>>

\* Another client of the remote service starts an egress job.
ExternalStart(room) ==
    /\ Len(jobs) < MaxJobs
    /\ jobs' = Append(jobs, [roomName |-> room, status |-> EGRESS_STARTING])
    /\ UNCHANGED <<env, reqs, statusVars, permVars, uiVars, jwtVars>>

\* A job moves on in its lifecycle on the remote service.
JobAdvance(i) ==
    /\ i \in 1..Len(jobs)
    /\ \E st \in NextStatuses(jobs[i].status) :
          jobs' = [jobs EXCEPT ![i].status = st]
    /\ UNCHANGED <<env, reqs, statusVars, permVars, uiVars, jwtVars>>

(***************************************************************************)
(* livekit-jwt: generateLiveKitToken and verifyLiveKitToken                *)
(*                                                                         *)
(* The JWT library is used through sign, verify and decode. A token is the *)
(* number of its '.'-separated parts, its header and payload segments      *)
(* (base64url of JSON text) and its signature; the HMAC is taken to be     *)
(* equal only for equal key and equal signed text.                         *)
(***************************************************************************)
\* One member of a JSON object text: its key, its value and, for a nested
\* object, the members of that object.
Member(k, v, o) == [k |-> k, v |-> v, o |-> o]

\* JSON.stringify of an object: its own keys in insertion order, the members
\* whose value is undefined left out.
Defined(members) == SelectSeq(members, LAMBDA m : m.v # Undef)

\* The value a parsed object has at a key: undefined when the text has none.
ValueAt(members, key) ==
    IF \E i \in 1..Len(members) : members[i].k = key
    THEN members[CHOOSE i \in 1..Len(members) : members[i].k = key].v
    ELSE Undef
NestedAt(members, key) ==
    IF \E i \in 1..Len(members) : members[i].k = key
    THEN members[CHOOSE i \in 1..Len(members) : members[i].k = key].o
    ELSE <<>>

\* VideoGrant: the fields the callers set.
GrantKeys == <<"room", "roomJoin", "roomRecord", "roomAdmin">>
NoGrantFields == [room |-> Undef, roomJoin |-> Undef, roomRecord |-> Undef,
                  roomAdmin |-> Undef]
StringifyGrant(grant) ==
    Defined([i \in 1..Len(GrantKeys) |-> Member(GrantKeys[i], grant[GrantKeys[i]], <<>>)])
ParseGrant(members) ==
    [room |-> ValueAt(members, "room"), roomJoin |-> ValueAt(members, "roomJoin"),
     roomRecord |-> ValueAt(members, "roomRecord"),
     roomAdmin |-> ValueAt(members, "roomAdmin")]

\* The claims object generateLiveKitToken builds, as JSON text and back.
StringifyClaims(claims) ==
    Defined(<< Member("video", Obj, StringifyGrant(claims.video)),
               Member("sub", claims.sub, <<>>), Member("iss", claims.iss, <<>>),
               Member("nbf", claims.nbf, <<>>), Member("exp", claims.exp, <<>>),
               Member("name", claims.name, <<>>),
               Member("metadata", claims.metadata, <<>>),
               Member("attributes", claims.attributes, <<>>) >>)
ParseClaims(members) ==
    [ video |-> ParseGrant(NestedAt(members, "video")),
      hasVideo |-> ValueAt(members, "video") # Undef,
      sub |-> ValueAt(members, "sub"), iss |-> ValueAt(members, "iss"),
      nbf |-> ValueAt(members, "nbf"), exp |-> ValueAt(members, "exp"),
      name |-> ValueAt(members, "name"), metadata |-> ValueAt(members, "metadata"),
      attributes |-> ValueAt(members, "attributes") ]

\* A segment of a token: base64url of a JSON text (valid), or text that is not.
Segment(alg, members) == [valid |-> TRUE, alg |-> alg, members |-> members]
BadSegment == [valid |-> FALSE, alg |-> "", members |-> <<>>]

\* HMAC-SHA256 of header.payload under a key.
Hmac(secret, header, payload) == [key |-> secret, header |-> header, payload |-> payload]
NoSignature == [key |-> "", header |-> BadSegment, payload |-> BadSegment]

NoToken == [origin |-> "none", parts |-> 0, header |-> BadSegment,
            payload |-> BadSegment, signature |-> NoSignature]

\* jwt.sign(claims, apiSecret): header { alg: 'HS256', typ: 'JWT' }.
sign(claims, secret) ==
    LET header  == Segment("HS256", <<>>)
        payload == Segment("", StringifyClaims(claims))
    IN [origin |-> "issued", parts |-> 3, header |-> header, payload |-> payload,
        signature |-> Hmac(secret, header, payload)]

\* ttlSeconds: number = 5 * 60
TtlOrDefault(ttlSeconds) == IF ttlSeconds = Undef THEN 5 * 60 ELSE ttlSeconds.n

\* generateLiveKitToken, now being Math.floor(Date.now() / 1000).
generateLiveKitToken(apiKey, apiSecret, options, grant, ttlSeconds, now) ==
    sign([ video |-> grant, sub |-> options.identity, iss |-> Str(apiKey),
           nbf |-> Num(now), exp |-> Num(now + TtlOrDefault(ttlSeconds)),
           name |-> IF Truthy(options.name) THEN options.name ELSE Undef,
           metadata |-> IF Truthy(options.metadata) THEN options.metadata ELSE Undef,
           attributes |-> IF Truthy(options.attributes) THEN options.attributes
                          ELSE Undef ],
         apiSecret)

\* jwt.verify(token, apiSecret) at time `now`: it throws for a token that does
\* not have three parts or whose header or payload is not JSON, and is false
\* for another algorithm, a token not yet valid or expired, or a signature
\* that is not the HMAC of header.payload. Whether exp = now counts as expired
\* differs between versions of the library (atExpiry).
jwtVerify(tok, secret, now, atExpiry) ==
    IF tok.parts # 3 THEN Thrown(<<"token must consist of 3 parts">>)
    ELSE IF ~tok.header.valid \/ ~tok.payload.valid
    THEN Thrown(<<"Unexpected token in JSON">>)
    ELSE LET payload == ParseClaims(tok.payload.members) IN
         IF tok.header.alg # "HS256" THEN Returned(FALSE)
         ELSE IF payload.nbf.t = "number" /\ payload.nbf.n > now THEN Returned(FALSE)
         ELSE IF payload.exp.t = "number"
                 /\ (payload.exp.n < now \/ (atExpiry /\ payload.exp.n = now))
         THEN Returned(FALSE)
         ELSE Returned(tok.signature = Hmac(secret, tok.header, tok.payload))

\* What verifyLiveKitToken returns: null, or the decoded payload.
NullPayload == [isNull |-> TRUE, payload |-> ParseClaims(<<>>)]
DecodedPayload(tok) == [isNull |-> FALSE, payload |-> ParseClaims(tok.payload.members)]

\* verifyLiveKitToken that decodes without verifying.
verifyLiveKitToken_DecodeOnly(tok, apiSecret, now, atExpiry) ==
    IF tok.parts # 3 \/ ~tok.header.valid \/ ~tok.payload.valid
    THEN Returned(NullPayload)
    ELSE Returned(DecodedPayload(tok))

\* verifyLiveKitToken without its try/catch.
verifyLiveKitToken_NoCatch(tok, apiSecret, now, atExpiry) ==
    LET isValid == jwtVerify(tok, apiSecret, now, atExpiry) IN
    IF isValid.threw THEN Thrown(isValid.message)
    ELSE IF ~isValid.value THEN Returned(NullPayload)
    ELSE Returned(DecodedPayload(tok))

\* verifyLiveKitToken: null when verify throws or is false, else the payload
\* jwt.decode gives.
verifyLiveKitToken(tok, apiSecret, now, atExpiry) ==
    LET isValid == jwtVerify(tok, apiSecret, now, atExpiry) IN
    IF isValid.threw THEN Returned(NullPayload)
    ELSE IF ~isValid.value THEN Returned(NullPayload)
    ELSE Returned(DecodedPayload(tok))

NoTokenArgs ==
    [ apiKey |-> "", apiSecret |-> "", identity |-> Str(""), name |-> Undef,
      metadata |-> Undef, attributes |-> Undef, grant |-> NoGrantFields,
      ttlSeconds |-> Undef, now |-> 0 ]
JwtIdle == tokenIn = NoTokenArgs /\ token = NoToken /\ verifyOut = <<>>

(***************************************************************************)
(* Specifications                                                          *)
(***************************************************************************)
StatusIdle == statusIn = Undef /\ activeOut = <<>> /\ stopFilterOut = <<>>
PermIdle   == lookupIn = NetworkError /\ participantOut = <<>> /\ permOut = <<>>
\* A toggleRoomRecording invocation: the isRecording its closure holds, the
\* path it fetches and (for the properties) localRecordingState when it fetched.
NoInvocation == [isRecording |-> FALSE, path |-> "", localAtSend |-> Null]

\* The SettingsMenu of a participant who may record, its Media tab open.
MenuAtMount ==
    [ inflight |-> <<>>, last |-> "none", done |-> NoInvocation,
      activeTab |-> "media", endpoint |-> TRUE, canRecord |-> TRUE, e2ee |-> FALSE ]

UiIdle     == /\ livekitIsRecording = FALSE
              /\ localRecordingState = Null
              /\ processingRecRequest = FALSE
              /\ ui = MenuAtMount

\* The configurations the handlers run under while requests run concurrently:
\* everything set, and the URL set to a string new URL() rejects.
ServedEnvs == { FullEnv, [FullEnv EXCEPT !.LIVEKIT_URL = Str("meet.livekit.example")] }

Init ==
    /\ env \in ServedEnvs
    /\ reqs = [r \in Requests |-> FreeReq]
    /\ jobs = <<>>
    /\ StatusIdle /\ PermIdle /\ UiIdle /\ JwtIdle

\* Requests handled concurrently; the remote service's jobs are those the
\* requests start.
Next ==
    \/ \E r \in Requests : Arrive(r, RoomsServed, IdentitiesServed)
    \/ \E r \in Requests : PermStep(r)
    \/ \E r \in Requests : StartAfterList(r)
    \/ \E r \in Requests : StartCallStep(r)
    \/ \E r \in Requests : StopAfterList(r)
    \/ \E r \in Requests, id \in EgressIds : StopIssueStep(r, id)
    \/ \E r \in Requests, id \in EgressIds : StopCallStep(r, id)
    \/ \E i \in 1..MaxJobs : JobAdvance(i)

Spec == Init /\ [][Next]_vars

\* One request, handled while the remote service's jobs come and go: other
\* clients of the service start jobs as well.
NextSingle ==
    \/ Arrive(1, RoomParams, IdentityParams)
    \/ PermStep(1)
    \/ StartAfterList(1)
    \/ StartCallStep(1)
    \/ StopAfterList(1)
    \/ \E id \in EgressIds : StopIssueStep(1, id)
    \/ \E id \in EgressIds : StopCallStep(1, id)
    \/ \E room \in ExternalRooms : ExternalStart(room)
    \/ \E i \in 1..MaxJobs : JobAdvance(i)

SpecSingle == Init /\ [][NextSingle]_vars

\* One request under every configuration of process.env, with the jobs the
\* remote service holds fixed while the request runs.
JobPresets ==
    { <<>>,
      <<[roomName |-> "roomA", status |-> EGRESS_ACTIVE]>>,
      <<[roomName |-> "roomA", status |-> EGRESS_COMPLETE]>> }

InitEnv ==
    /\ env \in EnvCombos
    /\ reqs = [r \in Requests |-> FreeReq]
    /\ jobs \in JobPresets
    /\ StatusIdle /\ PermIdle /\ UiIdle /\ JwtIdle

NextEnv ==
    \/ Arrive(1, RoomParams, IdentityParams)
    \/ PermStep(1)
    \/ StartAfterList(1)
    \/ StartCallStep(1)
    \/ StopAfterList(1)
    \/ \E id \in EgressIds : StopIssueStep(1, id)
    \/ \E id \in EgressIds : StopCallStep(1, id)

SpecEnv == InitEnv /\ [][NextEnv]_vars

(***************************************************************************)
(* Properties of the route handlers                                        *)
(***************************************************************************)
\* A status that means starting or active, as its name or as its number.
StartingOrActive(status) ==
    \/ status.t = "string" /\ status.s \in {"EGRESS_STARTING", "EGRESS_ACTIVE"}
    \/ status.t = "number" /\ status.n \in {0, 1}

SettledOk(x) == x.kind = "response" /\ x.status >= 200 /\ x.status <= 299

\* The request's call of the method settled with an OK response.
CallReturned(q, method) ==
    \E k \in 1..Len(q.settled) : q.settled[k].method = method /\ SettledOk(q.settled[k])

\* The calls of a method the request issued.
CallsOf(q, method) == { k \in 1..Len(q.calls) : q.calls[k].method = method }

ListHasActive(q) == \E k \in 1..Len(q.list) : StartingOrActive(q.list[k].status)

\* C1: a start request whose job list came back with a job that is starting or
\* active is answered 409 'Meeting is already being recorded' and issues no
\* StartRoomCompositeEgress call, so that it creates no job.
C1_StartConflict ==
    \A r \in Requests :
        LET q == reqs[r] IN
        (q.kind = "start" /\ CallReturned(q, "ListEgress") /\ ListHasActive(q))
        => /\ q.pc = "done"
           /\ q.resp.status = 409
           /\ q.resp.message = <<"Meeting is already being recorded">>
           /\ CallsOf(q, "StartRoomCompositeEgress") = {}
           /\ q.created = ""

\* A start request was answered 409 on a list that gave the active job's status
\* as a number.
C1_Witness ==
    \E r \in Requests :
        /\ reqs[r].kind = "start" /\ reqs[r].resp.status = 409
        /\ \E k \in 1..Len(reqs[r].list) : reqs[r].list[k].status = Num(1)

\* C2: a stop request whose job list came back without any job that is starting
\* or active is answered 404 'No active recording found' and issues no
\* StopEgress call.
C2_NothingToStop ==
    \A r \in Requests :
        LET q == reqs[r] IN
        (q.kind = "stop" /\ CallReturned(q, "ListEgress") /\ ~ListHasActive(q))
        => /\ q.pc = "done"
           /\ q.resp.status = 404
           /\ q.resp.message = <<"No active recording found">>
           /\ CallsOf(q, "StopEgress") = {}

\* A stop request was answered 404 on a list that held a job, one that is ending.
C2_Witness ==
    \E r \in Requests :
        /\ reqs[r].kind = "stop" /\ reqs[r].resp.status = 404
        /\ \E k \in 1..Len(reqs[r].list) : reqs[r].list[k].status = Num(2)
        /\ ~ListHasActive(reqs[r])

\* C5: a stop request whose job list came back issues exactly one StopEgress
\* call for every listed job that is starting or active, whether the list gives
\* the status as a name or as a number (once the calls it makes are issued).
C5_StopsEveryActiveJob ==
    \A r \in Requests :
        LET q == reqs[r] IN
        (q.kind = "stop" /\ CallReturned(q, "ListEgress") /\ q.unsent = {})
        => \A k \in 1..Len(q.list) :
              StartingOrActive(q.list[k].status)
              => Cardinality({ c \in CallsOf(q, "StopEgress") :
                                 q.calls[c].egressId = q.list[k].egressId.s }) = 1

\* The pieces of a file path recordings/<room>/<timestamp>.mp4 whose timestamp
\* has neither ':' nor '.'.
IsRecordingPath(path, room) ==
    /\ Len(path) > 4
    /\ path[1] = "recordings/" /\ path[2] = room /\ path[3] = "/"
    /\ path[Len(path)] = ".mp4"
    /\ \A i \in 4..(Len(path) - 1) : path[i] \notin {":", ".", "/"}
    /\ \E iso \in IsoInstants :
          /\ Len(iso) = Len(path) - 4
          /\ \A i \in 1..Len(iso) : iso[i] \notin {":", "."} => path[i + 3] = iso[i]

\* C6: a start request of an identity whose metadata is {"canRecord":true},
\* under a full configuration, whose lookup and list calls came back, the list
\* without an active job, and whose start call came back OK, has issued exactly
\* one StartRoomCompositeEgress call, for its room, and is answered 200 with a
\* JSON body {message, filepath} whose filepath is recordings/<room>/<timestamp>.mp4
\* and is the filepath the start call sent.
C6_StartSucceeds ==
    \A r \in Requests :
        LET q == reqs[r] IN
        ( /\ q.kind = "start"
          /\ q.identity.s \in KnownIdentities
          /\ Directory(q.identity.s) = Str("{\"canRecord\":true}")
          /\ CallReturned(q, "GetParticipant")
          /\ CallReturned(q, "ListEgress") /\ ~ListHasActive(q)
          /\ CallReturned(q, "StartRoomCompositeEgress") )
        => /\ q.resp.status = 200
           /\ q.resp.contentType = "application/json"
           /\ q.resp.message = <<"Recording started">>
           /\ IsRecordingPath(q.resp.filepath, q.roomName.s)
           /\ Cardinality(CallsOf(q, "StartRoomCompositeEgress")) = 1
           /\ \A c \in CallsOf(q, "StartRoomCompositeEgress") :
                 /\ q.calls[c].room = q.roomName.s
                 /\ q.calls[c].filepath = q.resp.filepath

\* A start request was answered 200 while the room held a job that is complete.
C6_Witness ==
    \E r \in Requests :
        /\ reqs[r].kind = "start" /\ reqs[r].resp.status = 200
        /\ reqs[r].roomName = Str("roomA")
        /\ \E k \in 1..Len(reqs[r].list) : reqs[r].list[k].status = Str("EGRESS_COMPLETE")
        /\ reqs[r].created # ""

\* The message of the Error that request throws for a settled call.
ExpectedMessage(x) ==
    IF x.kind = "network_error" THEN <<"fetch failed">>
    ELSE <<"Egress API error: ">>
         \o (CASE x.status = 401 -> <<"4", "0", "1">>
               [] x.status = 503 -> <<"5", "0", "3">>)
         \o <<" - ", x.text>>

\* The first call of list/start/stop that did not come back OK, 0 if none.
FirstFailure(q) ==
    LET bad == { k \in 1..Len(q.settled) :
                   q.settled[k].method # "GetParticipant" /\ ~SettledOk(q.settled[k]) }
    IN IF bad = {} THEN 0 ELSE CHOOSE k \in bad : \A m \in bad : k <= m

\* C7: no handler invocation ends with an exception that escapes it, a handler
\* that is done has a response, and a request one of whose list/start/stop calls
\* failed (a non-OK response or a network failure) or whose client could not be
\* built is answered 500 with the error's message as body: for a non-OK
\* response, 'Egress API error: <status> - <body text>'.
C7_FailuresBecome500 ==
    \A r \in Requests :
        LET q == reqs[r] IN
        /\ ~q.resp.escaped
        /\ q.pc = "done" => q.resp.status # 0
        /\ FirstFailure(q) # 0
           => /\ q.resp.status = 500
              /\ q.resp.contentType = "text/plain"
              /\ q.resp.message = ExpectedMessage(q.settled[FirstFailure(q)])
        /\ ( /\ q.kind # "none" /\ q.roomName # Null /\ Truthy(q.identity)
             /\ env.LIVEKIT_URL = Str("meet.livekit.example") )
           => q.resp.status = 500 /\ q.resp.message = <<"Invalid URL">>

\* A stop request was answered 500 with the remote status and text of a rejected
\* StopEgress call, after another of its StopEgress calls had come back OK.
C7_Witness ==
    \E r \in Requests :
        LET q == reqs[r] IN
        /\ q.kind = "stop" /\ q.resp.status = 500
        /\ q.resp.message = <<"Egress API error: ", "5", "0", "3", " - ", "egress not available">>
        /\ q.stopped # {}

\* The identity is a participant whose metadata says canRecord: true.
HasCanRecord(identity) ==
    /\ identity.t = "string" /\ identity.s \in KnownIdentities
    /\ Directory(identity.s) = Str("{\"canRecord\":true}")

\* A start request that is done, with roomName and identity present, of an
\* identity without canRecord.
DeniedStart(q) ==
    /\ q.kind = "start" /\ q.pc = "done"
    /\ q.roomName # Null /\ Truthy(q.identity)
    /\ ~HasCanRecord(q.identity)

PlatformConfigured == Truthy(env.LIVEKIT_URL) /\ Truthy(env.LIVEKIT_API_KEY)
                      /\ Truthy(env.LIVEKIT_API_SECRET)
StorageConfigured  == Truthy(env.S3_KEY_ID) /\ Truthy(env.S3_KEY_SECRET)
                      /\ Truthy(env.S3_BUCKET) /\ Truthy(env.S3_ENDPOINT)

\* C3 as stated: whatever the configuration, a start request with roomName and
\* identity present of an identity without canRecord is answered 403.
C3_Always403 ==
    \A r \in Requests : DeniedStart(reqs[r]) => reqs[r].resp.status = 403

\* C3: such a request is answered 403 'Recording permission denied' when the
\* platform and the storage configuration are present and the URL is one that
\* new URL() accepts; when a variable is missing it is answered 500
\* '... configuration missing', and 500 'Invalid URL' when the URL is not one,
\* in both cases without any lookup of the participant.
C3_DeniedWhenConfigured ==
    \A r \in Requests :
        LET q == reqs[r] IN
        DeniedStart(q)
        => IF ~PlatformConfigured
           THEN /\ q.resp.status = 500 /\ q.calls = <<>>
                /\ q.resp.message = <<"LiveKit configuration missing">>
           ELSE IF ~StorageConfigured
           THEN /\ q.resp.status = 500 /\ q.calls = <<>>
                /\ q.resp.message = <<"S3 storage configuration missing">>
           ELSE IF ~UrlParses(env.LIVEKIT_URL)
           THEN /\ q.resp.status = 500 /\ q.calls = <<>>
                /\ q.resp.message = <<"Invalid URL">>
           ELSE /\ q.resp.status = 403
                /\ q.resp.message = <<"Recording permission denied">>
                /\ CallsOf(q, "GetParticipant") # {}
                /\ CallsOf(q, "ListEgress") = {}

\* A start request of bob (canRecord: false) was answered 403 after the lookup,
\* under a configuration that lacks only the optional region.
C3_Witness ==
    \E r \in Requests :
        /\ DeniedStart(reqs[r]) /\ reqs[r].identity = Str("bob")
        /\ reqs[r].resp.status = 403 /\ Len(reqs[r].settled) = 1
        /\ env.S3_REGION = Undef

\* The calls of a request to the egress methods, by their position in q.calls.
EgressCalls(q) ==
    { i \in 1..Len(q.calls) :
        q.calls[i].method \in {"ListEgress", "StartRoomCompositeEgress", "StopEgress"} }

\* C15: a request that has issued a ListEgress, StartRoomCompositeEgress or
\* StopEgress call issued GetParticipant first, that lookup had settled with a
\* 200 for an identity whose metadata has canRecord: true, and the request has
\* roomName, identity and the platform configuration; so a request without
\* permission, parameters or platform configuration issues none of them.
C15_PermissionBeforeCalls ==
    \A r \in Requests :
        LET q == reqs[r] IN
        EgressCalls(q) # {}
        => /\ \A i \in EgressCalls(q) : i >= 2
           /\ q.calls[1].method = "GetParticipant"
           /\ Len(q.settled) >= 1
           /\ q.settled[1].method = "GetParticipant"
           /\ q.settled[1].kind = "response" /\ q.settled[1].status = 200
           /\ HasCanRecord(q.identity)
           /\ q.roomName # Null /\ Truthy(q.identity)
           /\ PlatformConfigured

\* A stop request of alice has its ListEgress call in flight, the lookup
\* having settled before it.
C15_Witness ==
    \E r \in Requests :
        /\ reqs[r].kind = "stop" /\ reqs[r].pc = "list"
        /\ reqs[r].identity = Str("alice")
        /\ Len(reqs[r].calls) = 2 /\ Len(reqs[r].settled) = 1

\* The jobs of a room that are starting or active on the remote service.
ActiveJobsOf(room) ==
    { i \in 1..Len(jobs) :
        jobs[i].roomName = room /\ jobs[i].status \in {EGRESS_STARTING, EGRESS_ACTIVE} }

\* C16: whatever the interleaving of the requests, a room never has two jobs
\* at once that are starting or active (every job here was created by a start
\* request of this system).
C16_OneActiveJobPerRoom ==
    \A room \in ExternalRooms : Cardinality(ActiveJobsOf(room)) <= 1

\* C19: a stop request that issued StopEgress calls and was answered: a 200
\* comes only when every call was fulfilled, with 'stopped' the number of
\* active jobs found; and with a 500 no job has been stopped by the request.
C19_AllOrNothing ==
    \A r \in Requests :
        LET q == reqs[r] IN
        (q.kind = "stop" /\ CallsOf(q, "StopEgress") # {} /\ q.resp.status # 0)
        => /\ q.resp.status = 200
                => /\ q.pending = {}
                   /\ q.resp.stopped = Len(activeEgresses(q.list))
                   /\ Cardinality(q.stopped) = Len(activeEgresses(q.list))
           /\ q.resp.status # 200
                => q.resp.status = 500 /\ q.stopped = {}


(***************************************************************************)
MaxStatusNumber == 8

StatusStrings ==
    { StatusName(n) : n \in EGRESS_STARTING..EGRESS_LIMIT_REACHED }
    \cup { "", "0", "1", "egress_active", "EGRESS_ACTIVE ", "ACTIVE", "STARTING",
           "EGRESS_UNKNOWN" }

StatusInputs ==
    { Str(x) : x \in StatusStrings } \cup { Num(n) : n \in -1..MaxStatusNumber }
    \cup { Undef, Null }

InitStatus ==
    /\ statusIn \in StatusInputs
    /\ activeOut = <<>> /\ stopFilterOut = <<>>
    /\ env = FullEnv /\ reqs = [r \in Requests |-> FreeReq] /\ jobs = <<>>
    /\ PermIdle /\ UiIdle /\ JwtIdle

CallIsEgressActive ==
    /\ activeOut = <<>>
    /\ activeOut' = <<isEgressActive(statusIn)>>
    /\ UNCHANGED <<statusIn, stopFilterOut, routeVars, permVars, uiVars, jwtVars>>

CallStopRouteFilter ==
    /\ stopFilterOut = <<>>
    /\ stopFilterOut' = <<stopRouteFilter(statusIn)>>
    /\ UNCHANGED <<statusIn, activeOut, routeVars, permVars, uiVars, jwtVars>>

NextStatus == CallIsEgressActive \/ CallStopRouteFilter

SpecStatus == InitStatus /\ [][NextStatus]_vars

\* C8: isEgressActive returns true exactly for the strings 'EGRESS_STARTING' and
\* 'EGRESS_ACTIVE' and the numbers 0 and 1, and false for every other status.
C8_ActiveExactly ==
    activeOut # <<>>
    => activeOut[1] = (statusIn \in { Str("EGRESS_STARTING"), Str("EGRESS_ACTIVE"),
                                      Num(0), Num(1) })

\* isEgressActive returned false for the number of EGRESS_ENDING.
C8_Witness == activeOut = <<FALSE>> /\ statusIn = Num(2)

(***************************************************************************)
(* checkRecordingPermission, applied to one outcome of the lookup          *)
(***************************************************************************)
MetadataValues ==
    { Str(m) : m \in MetadataStrings }
    \cup { Str(""), Undef, Null, Num(0), Num(5), Num(0 - 1), Bool(TRUE), Bool(FALSE), Obj }
    \cup { Arr(<<>>), Arr(<<Str("{\"canRecord\":true}")>>),
           Arr(<<Str("{\"canRecord\":false}")>>), Arr(<<Obj>>), Arr(<<Num(5)>>),
           Arr(<<Null>>), Arr(<<Arr(<<Str("{\"canRecord\":true}")>>)>>),
           Arr(<<Str("{\"canRecord\":true}"), Str("{\"canRecord\":true}")>>) }

LookupInputs ==
    { NetworkError, Response(200, "", "invalid", Undef), Response(200, "", "null", Undef) }
    \cup { Response(st, "error", "none", Undef) : st \in {400, 401, 403, 404, 500, 503} }
    \cup { Response(200, "", "object", m) : m \in MetadataValues }

InitPerm ==
    /\ lookupIn \in LookupInputs
    /\ participantOut = <<>> /\ permOut = <<>>
    /\ env = FullEnv /\ reqs = [r \in Requests |-> FreeReq] /\ jobs = <<>>
    /\ StatusIdle /\ UiIdle /\ JwtIdle

\* checkRecordingPermission awaits getParticipant ...
CallGetParticipant ==
    /\ participantOut = <<>>
    /\ participantOut' = <<getParticipant(lookupIn)>>
    /\ UNCHANGED <<lookupIn, permOut, routeVars, statusVars, uiVars, jwtVars>>

\* ... and goes on with what it returned (or rethrows what it threw).
ReturnPermission ==
    /\ participantOut # <<>>
    /\ permOut = <<>>
    /\ permOut' = <<IF participantOut[1].threw THEN participantOut[1]
                    ELSE hasPermission(participantOut[1].value)>>
    /\ UNCHANGED <<lookupIn, participantOut, routeVars, statusVars, uiVars, jwtVars>>

NextPerm == CallGetParticipant \/ ReturnPermission

SpecPerm == InitPerm /\ [][NextPerm]_vars

\* The lookups that grant: an OK response whose metadata is a JSON object text
\* with canRecord: true, or an array that String() turns into such a text (an
\* array whose one element, however deeply wrapped, is that text).
GrantingLookups ==
    { Response(200, "", "object", Str(m)) :
        m \in { "{\"canRecord\":true}", "{\"canRecord\":true,\"role\":\"host\"}",
                " {\"canRecord\": true} " } }
    \cup { Response(200, "", "object", Arr(<<Str("{\"canRecord\":true}")>>)),
           Response(200, "", "object", Arr(<<Arr(<<Str("{\"canRecord\":true}")>>)>>)) }

\* C4: checkRecordingPermission never throws, and it returns true exactly when
\* the lookup came back OK with a participant whose metadata parses to an object
\* with canRecord === true; for every other outcome it returns false.
C4_FailClosed ==
    /\ participantOut # <<>> => ~participantOut[1].threw
    /\ permOut # <<>>
       => /\ ~permOut[1].threw
          /\ permOut[1].value = (lookupIn \in GrantingLookups)

\* It returned false for metadata whose canRecord is the string "true".
C4_Witness ==
    /\ lookupIn = Response(200, "", "object", Str("{\"canRecord\":\"true\"}"))
    /\ permOut = <<Returned(FALSE)>>

(***************************************************************************)
(* SettingsMenu: the recording toggle                                      *)
(***************************************************************************)
MaxInflight == 2    \* toggleRoomRecording invocations the model lets wait at once

\* const isRecording = localRecordingState !== null ? localRecordingState : livekitIsRecording
isRecording ==
    IF localRecordingState # Null THEN localRecordingState.b ELSE livekitIsRecording

\* An effect that clears the override whenever it is set.
CaughtUp_AnyOverride == localRecordingState # Null

\* The effect has work to do: the override is set and LiveKit reports the same.
\* The effect of the render that made them equal is pending until it runs.
CaughtUp == localRecordingState # Null /\ livekitIsRecording = localRecordingState.b

\* localRecordingState once a handler's updates are rendered: an effect that is
\* still pending runs before that render with the values of its own render,
\* and its setLocalRecordingState(null) lands after the handler's update.
AfterPendingEffect(next) == IF CaughtUp THEN Null ELSE next

\* settings[tab]: the tab has a button.
TabShown(tab) == tab = "media" \/ (ui.endpoint /\ ui.canRecord)

\* What the fetch of /start or /stop can give.
ToggleOutcomes ==
    { NetworkError, Response(200, "{...}", "object", Undef),
      Response(403, "Recording permission denied", "none", Undef),
      Response(404, "No active recording found", "none", Undef),
      Response(409, "Meeting is already being recorded", "none", Undef),
      Response(500, "Egress API error", "none", Undef) }

\* A handler that sets the override whatever the response.
StateAfterFetch_Always(local, wasRecording, fetched) ==
    IF fetched.kind = "network_error" THEN local ELSE Bool(~wasRecording)

\* localRecordingState after the fetch settled: !isRecording of the closure on
\* an OK response, unchanged otherwise.
StateAfterFetch(local, wasRecording, fetched) ==
    IF ResponseOk(fetched) THEN Bool(~wasRecording) ELSE local

\* A button that is never disabled.
ButtonDisabled_Never == FALSE

\* <button disabled={processingRecRequest} ...>: a disabled button gets no click.
ButtonDisabled == processingRecRequest

\* A handler that releases the busy flag on the OK path only.
BusyAfterFetch_OkOnly(fetched) == ~ResponseOk(fetched)

\* processingRecRequest after the fetch settled: setProcessingRecRequest(false)
\* in the OK branch, in the non-OK branch and in the catch.
BusyAfterFetch(fetched) ==
    IF fetched.kind = "network_error" THEN FALSE
    ELSE IF ResponseOk(fetched) THEN FALSE ELSE FALSE

InitUI ==
    /\ livekitIsRecording \in BOOLEAN
    /\ localRecordingState = Null
    /\ processingRecRequest = FALSE
    /\ ui \in { [MenuAtMount EXCEPT !.endpoint = ep, !.canRecord = cr, !.e2ee = ee] :
                   ep \in BOOLEAN, cr \in BOOLEAN, ee \in BOOLEAN }
    /\ env = FullEnv /\ reqs = [r \in Requests |-> FreeReq] /\ jobs = <<>>
    /\ StatusIdle /\ PermIdle /\ JwtIdle

\* onClick={() => setActiveTab(tab)}
SelectTab(tab) ==
    /\ TabShown(tab)
    /\ ui.activeTab # tab
    /\ ui' = [ui EXCEPT !.activeTab = tab]
    /\ localRecordingState' = AfterPendingEffect(localRecordingState)
    /\ UNCHANGED <<livekitIsRecording, processingRecRequest,
                   routeVars, statusVars, permVars, jwtVars>>

\* A click on the Start/Stop Recording button: toggleRoomRecording up to its
\* fetch. The early exits set no state, so nothing is rendered.
toggleRoomRecording ==
    /\ ui.activeTab = "recording"
    /\ ~ButtonDisabled
    /\ Len(ui.inflight) < MaxInflight
    /\ IF ~ui.endpoint
       THEN /\ ui' = [ui EXCEPT !.last = "alert: not configured"]
            /\ UNCHANGED <<processingRecRequest, localRecordingState>>
       ELSE IF ui.e2ee
       THEN /\ ui' = [ui EXCEPT !.last = "alert: encrypted"]
            /\ UNCHANGED <<processingRecRequest, localRecordingState>>
       ELSE /\ processingRecRequest' = TRUE
            /\ localRecordingState' = AfterPendingEffect(localRecordingState)
            /\ ui' = [ui EXCEPT !.last = "fetching",
                                !.inflight = Append(@,
                                    [isRecording |-> isRecording,
                                     path |-> IF isRecording THEN "/stop" ELSE "/start",
                                     localAtSend |-> localRecordingState])]
    /\ UNCHANGED <<livekitIsRecording, routeVars, statusVars, permVars, jwtVars>>

\* The fetch of an invocation settles and toggleRoomRecording runs to its end.
FetchSettles(k) ==
    /\ k \in 1..Len(ui.inflight)
    /\ \E fetched \in ToggleOutcomes :
          /\ localRecordingState' = AfterPendingEffect(
                 StateAfterFetch(localRecordingState, ui.inflight[k].isRecording, fetched))
          /\ ui' = [ui EXCEPT
                 !.inflight = SubSeq(@, 1, k - 1) \o SubSeq(@, k + 1, Len(@)),
                 !.done = ui.inflight[k],
                 !.last = IF fetched.kind = "network_error" THEN "alert: error"
                          ELSE IF ResponseOk(fetched) THEN "ok" ELSE "alert: failed"]
          /\ processingRecRequest' = BusyAfterFetch(fetched)
    /\ UNCHANGED <<livekitIsRecording, routeVars, statusVars, permVars, jwtVars>>

\* useIsRecording() reports a change of the room's recording state.
LivekitUpdate ==
    /\ livekitIsRecording' = ~livekitIsRecording
    /\ localRecordingState' = AfterPendingEffect(localRecordingState)
    /\ UNCHANGED <<processingRecRequest, ui,
                   routeVars, statusVars, permVars, jwtVars>>

\* The effect on [livekitIsRecording, localRecordingState]: it runs some time
\* after the render that made them equal, when nothing else came first.
SyncEffect ==
    /\ CaughtUp
    /\ localRecordingState' = Null
    /\ UNCHANGED <<livekitIsRecording, processingRecRequest, ui,
                   routeVars, statusVars, permVars, jwtVars>>

NextUI ==
    \/ \E tab \in {"media", "recording"} : SelectTab(tab)
    \/ toggleRoomRecording
    \/ \E k \in 1..MaxInflight : FetchSettles(k)
    \/ LivekitUpdate
    \/ SyncEffect

SpecUI == InitUI /\ [][NextUI]_vars /\ WF_vars(SyncEffect)

\* The same, with every fetch settling in the end (a response arrives or the
\* transport gives up and fetch rejects).
SpecUIFair ==
    /\ InitUI /\ [][NextUI]_vars
    /\ WF_vars(SyncEffect)
    /\ WF_vars(\E k \in 1..MaxInflight : FetchSettles(k))

\* A step in which a fetch settled.
Settling == Len(ui'.inflight) < Len(ui.inflight)

\* C9: when a fetch settles with an OK response, the override becomes the
\* opposite of what was displayed at the click (not recording after a stop,
\* recording after a start); and whenever the authoritative state equals the
\* override, the override is cleared to null.
C9_Reconciliation ==
    /\ [][ (Settling /\ ui'.last = "ok")
           => /\ ui'.done.path = "/stop"
                 => ui'.done.isRecording /\ localRecordingState' = Bool(FALSE)
              /\ ui'.done.path = "/start"
                 => ~ui'.done.isRecording /\ localRecordingState' = Bool(TRUE)
              /\ ui'.done.path \in {"/stop", "/start"} ]_vars
    /\ (localRecordingState = Bool(FALSE) /\ ~livekitIsRecording)
          ~> (localRecordingState = Null)
    /\ (localRecordingState = Bool(TRUE) /\ livekitIsRecording)
          ~> (localRecordingState = Null)

\* C10 as stated: after a failed request is handled, localRecordingState is
\* what it was when the request was sent.
C10_SameAsWhenSent ==
    [][ (Settling /\ ui'.last \in {"alert: failed", "alert: error"})
        => localRecordingState' = ui'.done.localAtSend ]_vars

\* C10: the handling of a failed request (a non-OK response or a thrown error)
\* sets no override: localRecordingState stays as it was when the failure
\* arrived, or is cleared to null when it equalled livekitIsRecording then.
C10_FailureKeepsOverride ==
    [][ (Settling /\ ui'.last \in {"alert: failed", "alert: error"})
        => localRecordingState' =
              IF localRecordingState # Null
                 /\ livekitIsRecording = localRecordingState.b
              THEN Null ELSE localRecordingState ]_vars

\* A request sent with the override at 'recording' has failed and the override
\* is still 'recording'.
C10_Witness ==
    /\ ui.last = "alert: failed" /\ ui.done.localAtSend = Bool(TRUE)
    /\ localRecordingState = Bool(TRUE) /\ ui.inflight = <<>>

\* C11: localRecordingState changes in two kinds of step only: to null, from a
\* set value that livekitIsRecording equals at that step; and to the opposite
\* of the click's displayed state, when a fetch settles with an OK response.
C11_ClearsOnlyOnMatch ==
    [][ localRecordingState' # localRecordingState
        => IF localRecordingState' = Null
           THEN /\ localRecordingState # Null
                /\ livekitIsRecording = localRecordingState.b
           ELSE /\ Settling /\ ui'.last = "ok"
                /\ localRecordingState' = Bool(~ui'.done.isRecording) ]_vars

\* A request succeeded, the authoritative state came to report what the
\* override said, and the override is unset again.
C11_Witness ==
    /\ ui.last = "ok" /\ ui.inflight = <<>>
    /\ localRecordingState = Null
    /\ livekitIsRecording = ~ui.done.isRecording

\* C12: at most one fetch of /start or /stop is pending at any time, the busy
\* flag is true exactly while one is, and a fetch is sent only in a step that
\* starts with none pending and the flag false.
C12_OneInFlight ==
    /\ [](Len(ui.inflight) <= 1)
    /\ [](processingRecRequest <=> Len(ui.inflight) = 1)
    /\ [][ Len(ui'.inflight) > Len(ui.inflight)
           => ui.inflight = <<>> /\ ~processingRecRequest /\ processingRecRequest' ]_vars

\* A fetch is pending while the recording tab, with its button, is shown.
C12_Witness ==
    /\ Len(ui.inflight) = 1 /\ processingRecRequest
    /\ ui.activeTab = "recording" /\ ui.last = "fetching"

\* C17: an override that is set is cleared in the end.
C17_OverrideCleared ==
    (localRecordingState # Null) ~> (localRecordingState = Null)

\* C18: the step in which a fetch settles (OK, non-OK or thrown) sets the busy
\* flag to false; the two early exits leave it false; the flag is true only
\* while a fetch is pending; and, every fetch settling, a flag that is true
\* becomes false.
C18_BusyReleased ==
    /\ [][ Settling => ~processingRecRequest' ]_vars
    /\ [][ ui'.last \in {"alert: not configured", "alert: encrypted"}
           => ~processingRecRequest' ]_vars
    /\ [](processingRecRequest => ui.inflight # <<>>)
    /\ processingRecRequest ~> ~processingRecRequest

\* A fetch that failed (non-OK response) has been handled and the button is
\* enabled again.
C18_Witness ==
    /\ ui.last \in {"alert: failed", "alert: error"}
    /\ ui.inflight = <<>> /\ ~processingRecRequest

(***************************************************************************)
(* generateLiveKitToken and verifyLiveKitToken, applied to chosen inputs   *)
(***************************************************************************)
GrantValues ==
    { NoGrantFields,
      [NoGrantFields EXCEPT !.roomRecord = Bool(TRUE)],
      [NoGrantFields EXCEPT !.roomAdmin = Bool(TRUE), !.room = Str("roomA")],
      [NoGrantFields EXCEPT !.roomJoin = Bool(TRUE), !.room = Str("")] }
Secrets == { "secret", "other-secret" }
TtlValues == { Undef, Num(60), Num(0), Num(0 - 60) }
IssueTimes == { 1700000000, 1700000059 }
\* Seconds between the issue of a token and its verification.
Delays == { 0, 60, 61, 300 }

TokenArgs ==
    [ apiKey : {"APIkey"}, apiSecret : Secrets,
      identity : {Str(""), Str("alice"), Str("egress-api")},
      name : {Undef, Str(""), Str("Alice")},
      metadata : {Undef, Str("{\"canRecord\":true}")},
      attributes : {Undef, Obj},
      grant : GrantValues, ttlSeconds : TtlValues, now : IssueTimes ]

\* Token strings that no issuer made: no '.', two parts, four parts, and three
\* parts that are not base64url of JSON.
MalformedTokens ==
    { [NoToken EXCEPT !.origin = "malformed", !.parts = n] : n \in {1, 2, 4} }
    \cup { [NoToken EXCEPT !.origin = "malformed", !.parts = 3] }

\* An issued token with its claims changed after signing: another subject, a
\* grant with roomAdmin added, a later expiry, a payload that is no longer
\* JSON, or the header set to alg 'none' with the signature dropped.
AlteredTokens(tok) ==
    LET claims == ParseClaims(tok.payload.members)
        withClaims(c) == [tok EXCEPT !.origin = "altered",
                                     !.payload = Segment("", StringifyClaims(c))]
    IN { withClaims([claims EXCEPT !.sub = Str("mallory")]),
         withClaims([claims EXCEPT !.video.roomAdmin =
                        IF @ = Bool(TRUE) THEN Undef ELSE Bool(TRUE)]),
         withClaims([claims EXCEPT !.exp = Num(@.n + 3600)]),
         [tok EXCEPT !.origin = "altered", !.payload = BadSegment],
         [tok EXCEPT !.origin = "altered", !.header = Segment("none", <<>>),
                     !.signature = NoSignature] }

InitJwt ==
    /\ tokenIn \in TokenArgs
    /\ token = NoToken
    /\ verifyOut = <<>>
    /\ env = FullEnv /\ reqs = [r \in Requests |-> FreeReq] /\ jobs = <<>>
    /\ StatusIdle /\ PermIdle /\ UiIdle

\* generateLiveKitToken(apiKey, apiSecret, options, grant, ttlSeconds)
IssueToken ==
    /\ token = NoToken
    /\ token' = generateLiveKitToken(tokenIn.apiKey, tokenIn.apiSecret,
                    [identity |-> tokenIn.identity, name |-> tokenIn.name,
                     metadata |-> tokenIn.metadata, attributes |-> tokenIn.attributes],
                    tokenIn.grant, tokenIn.ttlSeconds, tokenIn.now)
    /\ UNCHANGED <<tokenIn, verifyOut, routeVars, statusVars, permVars, uiVars>>

\* Somebody changes the issued token before it is presented.
AlterToken ==
    /\ token.origin = "issued"
    /\ verifyOut = <<>>
    /\ token' \in AlteredTokens(token)
    /\ UNCHANGED <<tokenIn, verifyOut, routeVars, statusVars, permVars, uiVars>>

\* Somebody presents a string that is not a token.
PresentMalformed ==
    /\ token = NoToken
    /\ token' \in MalformedTokens
    /\ UNCHANGED <<tokenIn, verifyOut, routeVars, statusVars, permVars, uiVars>>

\* verifyLiveKitToken(token, apiSecret), some seconds after the issue.
VerifyToken ==
    /\ token # NoToken
    /\ verifyOut = <<>>
    /\ \E secret \in Secrets, delay \in Delays, atExpiry \in BOOLEAN :
          verifyOut' = << [ secret |-> secret, at |-> tokenIn.now + delay,
                            result |-> verifyLiveKitToken(token, secret,
                                           tokenIn.now + delay, atExpiry) ] >>
    /\ UNCHANGED <<tokenIn, token, routeVars, statusVars, permVars, uiVars>>

NextJwt == IssueToken \/ AlterToken \/ PresentMalformed \/ VerifyToken

SpecJwt == InitJwt /\ [][NextJwt]_vars

\* C13: verifyLiveKitToken never throws; for an issued, unaltered token
\* verified with the issuing secret while it is valid it returns a payload
\* whose sub, iss and video are the issued identity, API key and grant; with
\* another secret, for an altered token and for a malformed one it returns
\* null.
C13_IssuerVerifierAgree ==
    verifyOut # <<>>
    => LET out == verifyOut[1]
           got == out.result.value
       IN /\ ~out.result.threw
          /\ ( /\ token.origin = "issued" /\ out.secret = tokenIn.apiSecret
               /\ out.at < tokenIn.now + TtlOrDefault(tokenIn.ttlSeconds) )
             => /\ ~got.isNull
                /\ got.payload.sub = tokenIn.identity
                /\ got.payload.iss = Str(tokenIn.apiKey)
                /\ got.payload.hasVideo /\ got.payload.video = tokenIn.grant
          /\ (token.origin = "issued" /\ out.secret # tokenIn.apiSecret) => got.isNull
          /\ token.origin \in {"altered", "malformed"} => got.isNull

\* A token issued for alice with the roomAdmin grant was verified with the
\* issuing secret a minute later and its payload came back.
C13_Witness ==
    /\ verifyOut # <<>> /\ token.origin = "issued"
    /\ tokenIn.identity = Str("alice") /\ tokenIn.grant.roomAdmin = Bool(TRUE)
    /\ verifyOut[1].secret = tokenIn.apiSecret
    /\ verifyOut[1].at = tokenIn.now + 60
    /\ ~verifyOut[1].result.value.isNull

\* C14: every issued token has nbf = now, exp = nbf + ttlSeconds and
\* exp > nbf, whatever ttlSeconds the caller passed.
C14_ExpiryAfterNotBefore ==
    token.origin = "issued"
    => LET claims == ParseClaims(token.payload.members) IN
       /\ claims.nbf = Num(tokenIn.now)
       /\ claims.exp = Num(claims.nbf.n + TtlOrDefault(tokenIn.ttlSeconds))
       /\ claims.exp.n > claims.nbf.n

====
